---- MODULE Spec2Model ----
(***************************************************************************)
(* Model of src/extension.js (window-resizer GNOME Shell extension).       *)
(*                                                                         *)
(* The extension's handlers (_cycleWindowSizes, _centerWindow,             *)
(* _notifySizeChange, _flashMessage, _hideMessage) are the actions; the    *)
(* host shell (window frame, maximize state, work area, scale factor,      *)
(* "size-changed" signal, pending move-resize requests, fade completion)   *)
(* is the environment.                                                     *)
(*                                                                         *)
(* Numbers: JS numbers that may be half-integers (the centred position of  *)
(* _centerWindow) are kept in half-pixel units (fields x2, y2 = twice the  *)
(* JS value); the host truncates them to integers when it applies a frame. *)
(* Array indices are 0-based as in the source; scaledSizes[i] of the       *)
(* source is scaledSizes[i + 1] here.                                      *)
(***************************************************************************)
EXTENDS Integers, Sequences, FiniteSets, TLC

VARIABLES
    enabled,      \* the three key bindings are registered (enable() ran, disable() not)
    win,          \* window.get_frame_rect(): [x, y, width, height]
    maximized,    \* window.get_maximized(): 0, or Meta.MaximizeFlags 1 (HORIZONTAL),
                  \* 2 (VERTICAL), 3 (BOTH)
    restoreRect,  \* frame the host restores on unmaximize
    workArea,     \* window.get_work_area_current_monitor()
    scaleFactor,  \* St.ThemeContext scale_factor
    listeners,    \* ids of the attached 'size-changed' handlers (one per invocation)
    pending,      \* move_resize_frame requests the host has not applied yet
    text,         \* this._text: NoText or the message the label shows
    label,        \* the St.Label actors: [live: labels added to uiGroup and not
                  \* destroyed, fading: an ease with onComplete is running]
    nInv,         \* number of handler invocations so far
    nHost,        \* number of host-initiated events so far
    notifyCount,  \* per invocation id: how often its listener ran _notifySizeChange
    fired,        \* history: [owner, cause] of every listener firing; cause is the
                  \* id of the invocation whose request the host completed, or 0
                  \* for a size change no invocation requested
    last,         \* history: record of the most recent invocation
    prev,         \* history: record of the invocation before it
    lastNotified, \* history: frame rect the most recent _notifySizeChange read
    lastMessage,  \* history: the message of the most recent _flashMessage call
    run           \* history: the current run of consecutive cycle invocations in one
                  \* direction, each on the frame the one before it requested

vars == <<enabled, win, maximized, restoreRect, workArea, scaleFactor, listeners, pending,
          text, label, nInv, nHost, notifyCount, fired, last, prev, lastNotified,
          lastMessage, run>>

----------------------------------------------------------------------------
(* Bounds of the model *)

MaxInvocations == 4
MaxHostEvents == 1
MaxHostInvocations == 2

Ids == 1..MaxInvocations

----------------------------------------------------------------------------
(* Program constants *)

SIZES == << <<1280, 720>>, <<1280, 900>>, <<1440, 900>>, <<1600, 900>> >>

----------------------------------------------------------------------------
(* Inputs *)

Rect(x, y, w, h) == [x |-> x, y |-> y, width |-> w, height |-> h]

NoRect == Rect(0, 0, 0, 0)

Monitor(wa, sf) == [workArea |-> wa, scaleFactor |-> sf]

(* monitor configurations: the work area and the scale factor of the window's monitor *)
Monitors ==
    { Monitor(Rect(0, 0, 2000, 1200), 1),     \* every size fits
      Monitor(Rect(0, 0, 1000, 800), 2),      \* no scaled size fits
      Monitor(Rect(0, 0, 1000, 700), 1),      \* no size fits
      Monitor(Rect(0, 0, 1300, 760), 1),      \* only 1280x720 fits
      Monitor(Rect(64, 32, 1500, 950), 1),    \* three sizes fit; origin off (0, 0)
      Monitor(Rect(0, 32, 3840, 2128), 2) }   \* every scaled size fits

(* window.get_maximized() of a window that is maximized on at least one axis *)
MaximizedStates == {1, 2, 3}

(* the frame of a window with saved frame r maximized with the given flags on work
   area wa: the maximized axes fill the work area *)
MaximizedFrame(flags, wa, r) ==
    [x |-> IF flags \in {1, 3} THEN wa.x ELSE r.x,
     width |-> IF flags \in {1, 3} THEN wa.width ELSE r.width,
     y |-> IF flags \in {2, 3} THEN wa.y ELSE r.y,
     height |-> IF flags \in {2, 3} THEN wa.height ELSE r.height]

FrameRects ==
    { Rect(0, 0, 1280, 720),        \* exactly SIZES[0]
      Rect(100, 50, 1280, 810),     \* same error to SIZES[0] and SIZES[1]
      Rect(-100, -20, 1000, 600),   \* left of and above every work area
      Rect(900, 500, 1600, 900),    \* exactly SIZES[3], near the right/bottom edge
      Rect(10, 10, 2201, 1301) }    \* larger than most work areas, odd size

----------------------------------------------------------------------------
(* JavaScript arithmetic *)

Abs(n) == IF n < 0 THEN -n ELSE n

Max(a, b) == IF a >= b THEN a ELSE b

(* a % n of JS for n > 0: the remainder takes the sign of the dividend *)
JsRem(a, n) == IF a >= 0 THEN a % n ELSE -((-a) % n)

(* variant: a negative index is taken as index 0 *)
AtClamped(arr, k) == IF k < 0 THEN arr[1] ELSE arr[k + 1]

(* Array.prototype.at: a negative index counts from the end *)
At(arr, k) == IF k < 0 THEN arr[Len(arr) + k + 1] ELSE arr[k + 1]

(* conversion of a JS number, given in half units, to an integer argument *)
ToInt(v2) == IF v2 >= 0 THEN v2 \div 2 ELSE -((-v2) \div 2)

----------------------------------------------------------------------------
(* _cycleWindowSizes: the computation *)

Scale(size, sf) == <<size[1] * sf, size[2] * sf>>

(* variant: the height is not compared *)
FitsWidthOnly(size, wa) == size[1] <= wa.width

Fits(size, wa) == size[1] <= wa.width /\ size[2] <= wa.height

(* this.SIZES.map(size => size.map(wh => wh * scaleFactor)).filter(...) *)
ScaledSizes(wa, sf) ==
    SelectSeq([i \in 1..Len(SIZES) |-> Scale(SIZES[i], sf)], LAMBDA s : Fits(s, wa))

Error(size, outerRect) ==
    Abs(size[1] - outerRect.width) + Abs(size[2] - outerRect.height)

Undefined == -1

(* the for loop over scaledSizes, from index i with the variables' current values *)
RECURSIVE NearestLoop(_, _, _, _, _)
NearestLoop(scaledSizes, outerRect, i, nearestIndex, nearestError) ==
    IF i >= Len(scaledSizes)
    THEN nearestIndex
    ELSE LET error == Error(scaledSizes[i + 1], outerRect)
         IN  IF nearestIndex = Undefined \/ error < nearestError
             THEN NearestLoop(scaledSizes, outerRect, i + 1, i, error)
             ELSE NearestLoop(scaledSizes, outerRect, i + 1, nearestIndex, nearestError)

(* variant: an equal error replaces the tracked minimum (the last of a tie wins) *)
RECURSIVE NearestLoopLastWins(_, _, _, _, _)
NearestLoopLastWins(scaledSizes, outerRect, i, nearestIndex, nearestError) ==
    IF i >= Len(scaledSizes)
    THEN nearestIndex
    ELSE LET error == Error(scaledSizes[i + 1], outerRect)
         IN  IF nearestIndex = Undefined \/ error <= nearestError
             THEN NearestLoopLastWins(scaledSizes, outerRect, i + 1, i, error)
             ELSE NearestLoopLastWins(scaledSizes, outerRect, i + 1, nearestIndex,
                                      nearestError)

NearestIndexLastWins(scaledSizes, outerRect) ==
    NearestLoopLastWins(scaledSizes, outerRect, 0, Undefined, 0)

NearestIndex(scaledSizes, outerRect) ==
    NearestLoop(scaledSizes, outerRect, 0, Undefined, 0)

(* variant: the direction is ignored, the index always advances *)
NewIndexForwardOnly(nearestIndex, backwards, length) == JsRem(nearestIndex + 1, length)

(* variant: the index stops at the ends of the list instead of wrapping *)
NewIndexSaturating(nearestIndex, backwards, length) ==
    IF backwards
    THEN Max(nearestIndex - 1, 0)
    ELSE -Max(-(nearestIndex + 1), -(length - 1))

(* (nearestIndex + (backwards ? -1 : 1)) % scaledSizes.length, for a non-empty list *)
NewIndex(nearestIndex, backwards, length) ==
    JsRem(nearestIndex + (IF backwards THEN -1 ELSE 1), length)

(* variant: the window is always pushed to the far edge *)
ClampAlways(pos, newLen, waPos, waLen) == Max(waPos, waPos + waLen - newLen)

(* variant: the position is never adjusted *)
ClampNever(pos, newLen, waPos, waLen) == pos

(* Push the window onscreen if it would be resized offscreen (one axis) *)
Clamp(pos, newLen, waPos, waLen) ==
    IF pos + newLen > waPos + waLen
    THEN Max(waPos, waPos + waLen - newLen)
    ELSE pos

----------------------------------------------------------------------------
(* _notifySizeChange / _flashMessage / _hideMessage *)

NoText == [present |-> FALSE, width |-> 0, height |-> 0, suffix |-> FALSE, numerator100 |-> 0]

(* variant: the absolute value is not taken *)
RatioDeviatesAbove(rect) == 100 * (9 * rect.width - 16 * rect.height) > rect.height

(* Math.abs(actualNumerator - 16) > 0.01 with actualNumerator = 9 * width / height,
   both sides multiplied by 100 * height (height > 0) *)
RatioDeviates(rect) == 100 * Abs(9 * rect.width - 16 * rect.height) > rect.height

(* '%.2f'.format(actualNumerator), in hundredths, rounded to nearest *)
Numerator100(rect) == (2 * 900 * rect.width + rect.height) \div (2 * rect.height)

(* the message _notifySizeChange builds for the frame rect and scale factor it reads;
   '%d' formats the integer part of its argument *)
Message(rect, sf) ==
    [present |-> TRUE,
     width |-> rect.width \div sf,
     height |-> rect.height \div sf,
     suffix |-> RatioDeviates(rect),
     numerator100 |-> IF RatioDeviates(rect) THEN Numerator100(rect) ELSE 0]

(* _flashMessage: the label is created if absent and shows the message *)
FlashMessage(message) == message

(* The listeners of lines 111-114 and 155-158 run when the window emits
   'size-changed': each disconnects itself and calls _notifySizeChange. *)
FiredBy(ls, cause) == {[owner |-> l, cause |-> cause] : l \in ls}

(* variant: a listener that ran stays connected *)
DetachNever(attached, ls) == attached

(* window.disconnect(id) in every listener that ran *)
Detach(attached, ls) == attached \ ls

CountAfter(count, ls) == [i \in DOMAIN count |-> IF i \in ls THEN count[i] + 1 ELSE count[i]]

TextAfter(txt, ls, rect, sf) == IF ls = {} THEN txt ELSE FlashMessage(Message(rect, sf))

(* variant: a label is created on every call *)
FlashLabelAlwaysCreates(lbl, txt) == [live |-> lbl.live + 1, fading |-> TRUE]

(* _flashMessage on the label actors: a label is created and added if this._text is
   unset; remove_all_transitions cancels a running fade (its onComplete does not
   run) and ease starts a new one *)
FlashLabel(lbl, txt) ==
    [live |-> IF txt.present THEN lbl.live ELSE lbl.live + 1, fading |-> TRUE]

(* the listeners of one emission call _flashMessage one after the other with the same
   message; every call after the first finds this._text set *)
LabelAfter(lbl, txt, ls) == IF ls = {} THEN lbl ELSE FlashLabel(lbl, txt)

MessageAfter(old, ls, rect, sf) == IF ls = {} THEN old ELSE Message(rect, sf)

NoLabel == [live |-> 0, fading |-> FALSE]

(* newOuterRect of the most recent _notifySizeChange *)
NotifiedAfter(old, ls, rect) == IF ls = {} THEN old ELSE rect

SameSize(r1, r2) == r1.width = r2.width /\ r1.height = r2.height

----------------------------------------------------------------------------
(* History records of the handlers' invocations *)

NoRequest == [id |-> 0, x2 |-> 0, y2 |-> 0, width |-> 0, height |-> 0]

NoInv ==
    [kind |-> "none", id |-> 0, backwards |-> FALSE,
     maximized |-> 0, unmaximized |-> FALSE, calls |-> <<>>,
     frameBefore |-> NoRect, workArea |-> NoRect, scaleFactor |-> 0, outerRect |-> NoRect,
     scaledSizes |-> <<>>, nearestIndex |-> Undefined, newIndex |-> Undefined,
     threw |-> FALSE, requested |-> FALSE, request |-> NoRequest]

NoRun == [start |-> <<0, 0>>, backwards |-> FALSE, scaledSizes |-> <<>>, sizes |-> <<>>]

(* the run after a cycle invocation that selected newSize: it goes on if the invocation
   before was a cycle in the same direction whose requested frame is the frame this
   one read, under the same work area and scale factor; otherwise a new run starts
   from the size this invocation read *)
RunAfter(old, before, backwards, outerRect, wa, sf, scaledSizes, newSize) ==
    IF /\ before.kind = "cycle" /\ before.requested
       /\ before.backwards = backwards
       /\ before.workArea = wa /\ before.scaleFactor = sf
       /\ outerRect = [x |-> ToInt(before.request.x2), y |-> ToInt(before.request.y2),
                       width |-> before.request.width, height |-> before.request.height]
    THEN [old EXCEPT !.sizes = Append(@, newSize)]
    ELSE [start |-> <<outerRect.width, outerRect.height>>, backwards |-> backwards,
          scaledSizes |-> scaledSizes, sizes |-> <<newSize>>]

----------------------------------------------------------------------------
(* Initial state: the extension is constructed, enable() has not run *)

Init ==
    /\ enabled = FALSE
    /\ \E m \in Monitors : workArea = m.workArea /\ scaleFactor = m.scaleFactor
    /\ maximized \in {0} \cup MaximizedStates
    /\ \E r \in FrameRects :
          IF maximized # 0
          THEN win = MaximizedFrame(maximized, workArea, r) /\ restoreRect = r
          ELSE win = r /\ restoreRect = NoRect
    /\ listeners = {}
    /\ pending = <<>>
    /\ text = NoText
    /\ nInv = 0
    /\ nHost = 0
    /\ notifyCount = [i \in Ids |-> 0]
    /\ fired = {}
    /\ last = NoInv
    /\ prev = NoInv
    /\ lastNotified = NoRect
    /\ label = NoLabel
    /\ lastMessage = NoText
    /\ run = NoRun

----------------------------------------------------------------------------
(* Handlers *)

(* The part common to both handlers (lines 72-77, 145-150): unmaximize if maximized,
   which restores the saved frame and emits 'size-changed' to the listeners attached
   by earlier invocations, then read the work area and the frame rect. *)
(* variant: only a window maximized on both axes counts *)
IsMaximizedBoth(flags) == flags = 3

(* window.get_maximized() !== 0 *)
IsMaximized(flags) == flags # 0

(* the host calls a handler makes, in order; a cycle that throws at line 101 makes
   none after get_frame_rect *)
HandlerCalls(unmaximizes, completes) ==
    (IF unmaximizes THEN <<"unmaximize">> ELSE <<>>)
        \o <<"get_work_area_current_monitor", "get_frame_rect">>
        \o (IF completes THEN <<"connect", "move_resize_frame">> ELSE <<>>)

(* get_frame_rect after the unmaximize: a window left maximized keeps its frame *)
OuterRectRead == IF IsMaximized(maximized) THEN restoreRect ELSE win

UnmaximizeEmits == IsMaximized(maximized) /\ ~SameSize(restoreRect, win)

(* get_maximized() after the handler's unmaximize(Meta.MaximizeFlags.BOTH) *)
MaximizedAfter == IF IsMaximized(maximized) THEN 0 ELSE maximized

RestoreRectAfter == IF IsMaximized(maximized) THEN NoRect ELSE restoreRect

FiredByUnmaximize == IF UnmaximizeEmits THEN listeners ELSE {}

(* _cycleWindowSizes(display, window, event, binding), backwards = binding.is_reversed() *)
CycleWindowSizes(backwards) ==
    /\ enabled
    /\ nInv < MaxInvocations
    /\ LET id == nInv + 1
           outerRect == OuterRectRead
           stale == FiredByUnmaximize
           scaledSizes == ScaledSizes(workArea, scaleFactor)
           nearestIndex == NearestIndex(scaledSizes, outerRect)
           base == [kind |-> "cycle", id |-> id, backwards |-> backwards,
                    maximized |-> maximized, unmaximized |-> IsMaximized(maximized),
                    calls |-> HandlerCalls(IsMaximized(maximized), scaledSizes # <<>>),
                    frameBefore |-> win, workArea |-> workArea,
                    scaleFactor |-> scaleFactor, outerRect |-> outerRect,
                    scaledSizes |-> scaledSizes, nearestIndex |-> nearestIndex,
                    newIndex |-> Undefined,
                    threw |-> FALSE, requested |-> FALSE, request |-> NoRequest]
       IN  /\ nInv' = id
           /\ maximized' = MaximizedAfter
           /\ restoreRect' = RestoreRectAfter
           /\ win' = outerRect
           /\ notifyCount' = CountAfter(notifyCount, stale)
           /\ fired' = fired \cup FiredBy(stale, 0)
           /\ text' = TextAfter(text, stale, outerRect, scaleFactor)
           /\ lastNotified' = NotifiedAfter(lastNotified, stale, outerRect)
           /\ label' = LabelAfter(label, text, stale)
           /\ lastMessage' = MessageAfter(lastMessage, stale, outerRect, scaleFactor)
           /\ prev' = last
           /\ IF scaledSizes = <<>>
              THEN \* line 101: destructuring undefined throws; nothing after it runs
                   /\ last' = [base EXCEPT !.threw = TRUE]
                   /\ listeners' = Detach(listeners, stale)
                   /\ pending' = pending
                   /\ run' = NoRun
              ELSE LET newIndex == NewIndex(nearestIndex, backwards, Len(scaledSizes))
                       newSize == At(scaledSizes, newIndex)
                       newX == Clamp(outerRect.x, newSize[1], workArea.x, workArea.width)
                       newY == Clamp(outerRect.y, newSize[2], workArea.y, workArea.height)
                       request == [id |-> id, x2 |-> 2 * newX, y2 |-> 2 * newY,
                                   width |-> newSize[1], height |-> newSize[2]]
                   IN  /\ last' = [base EXCEPT !.newIndex = newIndex,
                                               !.requested = TRUE,
                                               !.request = request]
                       /\ listeners' = (Detach(listeners, stale)) \cup {id}
                       /\ pending' = Append(pending, request)
                       /\ run' = RunAfter(run, last, backwards, outerRect, workArea,
                                          scaleFactor, scaledSizes, newSize)
    /\ UNCHANGED <<enabled, workArea, scaleFactor, nHost>>

(* variant: the offset is added to the window's position instead of the work area's *)
CenterPos2Relative(wa, outerRect) ==
    <<2 * outerRect.x + (wa.width - outerRect.width),
      2 * outerRect.y + (wa.height - outerRect.height)>>

(* variant: the centred position is clamped to the work-area origin *)
CenterPos2Clamped(wa, outerRect) ==
    <<Max(2 * wa.x, 2 * wa.x + (wa.width - outerRect.width)),
      Max(2 * wa.y, 2 * wa.y + (wa.height - outerRect.height))>>

(* newX, newY of _centerWindow, in half-pixel units *)
CenterPos2(wa, outerRect) ==
    <<2 * wa.x + (wa.width - outerRect.width), 2 * wa.y + (wa.height - outerRect.height)>>

(* _centerWindow(display, window, event, binding) *)
CenterWindow ==
    /\ enabled
    /\ nInv < MaxInvocations
    /\ LET id == nInv + 1
           outerRect == OuterRectRead
           stale == FiredByUnmaximize
           newPos2 == CenterPos2(workArea, outerRect)
           request == [id |-> id, x2 |-> newPos2[1], y2 |-> newPos2[2],
                       width |-> outerRect.width, height |-> outerRect.height]
       IN  /\ nInv' = id
           /\ maximized' = MaximizedAfter
           /\ restoreRect' = RestoreRectAfter
           /\ win' = outerRect
           /\ notifyCount' = CountAfter(notifyCount, stale)
           /\ fired' = fired \cup FiredBy(stale, 0)
           /\ text' = TextAfter(text, stale, outerRect, scaleFactor)
           /\ lastNotified' = NotifiedAfter(lastNotified, stale, outerRect)
           /\ label' = LabelAfter(label, text, stale)
           /\ lastMessage' = MessageAfter(lastMessage, stale, outerRect, scaleFactor)
           /\ prev' = last
           /\ last' = [kind |-> "center", id |-> id, backwards |-> FALSE,
                       maximized |-> maximized, unmaximized |-> IsMaximized(maximized),
                       calls |-> HandlerCalls(IsMaximized(maximized), TRUE),
                       frameBefore |-> win, workArea |-> workArea,
                       scaleFactor |-> scaleFactor, outerRect |-> outerRect,
                       scaledSizes |-> <<>>, nearestIndex |-> Undefined,
                       newIndex |-> Undefined,
                       threw |-> FALSE, requested |-> TRUE, request |-> request]
           /\ listeners' = (Detach(listeners, stale)) \cup {id}
           /\ pending' = Append(pending, request)
           /\ run' = NoRun
    /\ UNCHANGED <<enabled, workArea, scaleFactor, nHost>>

(* Fade completion: onComplete of the ease started by _flashMessage runs _hideMessage,
   which destroys the label and deletes this._text *)
HideMessage ==
    /\ label.fading
    /\ text' = NoText
    /\ label' = [live |-> label.live - 1, fading |-> FALSE]
    /\ UNCHANGED <<enabled, win, maximized, restoreRect, workArea, scaleFactor, listeners, pending,
                   nInv, nHost, notifyCount, fired, last, prev, lastNotified, lastMessage, run>>

(* the variables enable() and disable() leave alone: everything but the key bindings *)
varsButEnabled ==
    <<win, maximized, restoreRect, workArea, scaleFactor, listeners, pending, text, label,
      nInv, nHost, notifyCount, fired, last, prev, lastNotified, lastMessage, run>>

(* enable(): registers the three key bindings *)
Enable ==
    /\ ~enabled
    /\ enabled' = TRUE
    /\ UNCHANGED varsButEnabled

(* disable(): removes the three key bindings, and nothing else *)
Disable ==
    /\ enabled
    /\ enabled' = FALSE
    /\ UNCHANGED varsButEnabled

----------------------------------------------------------------------------
(* Host shell *)

(* The frame move_resize_frame(true, x, y, width, height) asks for *)
FrameOf(req) == Rect(ToInt(req.x2), ToInt(req.y2), req.width, req.height)

(* The host completes the oldest move_resize_frame request: the frame becomes the
   requested one and 'size-changed' is emitted if the size changed. *)
HostApply ==
    /\ pending # <<>>
    /\ LET req == Head(pending)
           frame == FrameOf(req)
           ls == IF SameSize(frame, win) THEN {} ELSE listeners
       IN  /\ win' = frame
           /\ pending' = Tail(pending)
           /\ listeners' = Detach(listeners, ls)
           /\ notifyCount' = CountAfter(notifyCount, ls)
           /\ fired' = fired \cup FiredBy(ls, req.id)
           /\ text' = TextAfter(text, ls, frame, scaleFactor)
           /\ lastNotified' = NotifiedAfter(lastNotified, ls, frame)
           /\ label' = LabelAfter(label, text, ls)
           /\ lastMessage' = MessageAfter(lastMessage, ls, frame, scaleFactor)
    /\ UNCHANGED <<enabled, maximized, restoreRect, workArea, scaleFactor, nInv, nHost, last, prev, run>>

(* The frame the host gives a window with geometry hints (a terminal's cell size)
   when asked for frame: the height is snapped down *)
Constrained(frame) == [frame EXCEPT !.height = frame.height - 6]

(* The host completes the oldest move_resize_frame request for a window whose
   geometry hints constrain the size *)
HostApplyConstrained ==
    /\ nHost < MaxHostEvents
    /\ pending # <<>>
    /\ LET req == Head(pending)
           frame == Constrained(FrameOf(req))
           ls == IF SameSize(frame, win) THEN {} ELSE listeners
       IN  /\ win' = frame
           /\ pending' = Tail(pending)
           /\ listeners' = Detach(listeners, ls)
           /\ notifyCount' = CountAfter(notifyCount, ls)
           /\ fired' = fired \cup FiredBy(ls, req.id)
           /\ text' = TextAfter(text, ls, frame, scaleFactor)
           /\ lastNotified' = NotifiedAfter(lastNotified, ls, frame)
           /\ label' = LabelAfter(label, text, ls)
           /\ lastMessage' = MessageAfter(lastMessage, ls, frame, scaleFactor)
    /\ nHost' = nHost + 1
    /\ UNCHANGED <<enabled, maximized, restoreRect, workArea, scaleFactor, nInv, last, prev, run>>

(* The user moves or resizes the window *)
HostResize(r) ==
    /\ nHost < MaxHostEvents
    /\ maximized = 0
    /\ r # win
    /\ LET ls == IF SameSize(r, win) THEN {} ELSE listeners
       IN  /\ win' = r
           /\ listeners' = Detach(listeners, ls)
           /\ notifyCount' = CountAfter(notifyCount, ls)
           /\ fired' = fired \cup FiredBy(ls, 0)
           /\ text' = TextAfter(text, ls, r, scaleFactor)
           /\ lastNotified' = NotifiedAfter(lastNotified, ls, r)
           /\ label' = LabelAfter(label, text, ls)
           /\ lastMessage' = MessageAfter(lastMessage, ls, r, scaleFactor)
    /\ nHost' = nHost + 1
    /\ UNCHANGED <<enabled, maximized, restoreRect, workArea, scaleFactor, pending, nInv, last, prev, run>>

(* The user maximizes the window on one or both axes: the maximized axes of the
   frame fill the work area *)
HostMaximize(flags) ==
    /\ nHost < MaxHostEvents
    /\ maximized = 0
    /\ pending = <<>>
    /\ LET frame == MaximizedFrame(flags, workArea, win)
           ls == IF SameSize(frame, win) THEN {} ELSE listeners
       IN  /\ win' = frame
           /\ restoreRect' = win
           /\ maximized' = flags
           /\ listeners' = Detach(listeners, ls)
           /\ notifyCount' = CountAfter(notifyCount, ls)
           /\ fired' = fired \cup FiredBy(ls, 0)
           /\ text' = TextAfter(text, ls, frame, scaleFactor)
           /\ lastNotified' = NotifiedAfter(lastNotified, ls, frame)
           /\ label' = LabelAfter(label, text, ls)
           /\ lastMessage' = MessageAfter(lastMessage, ls, frame, scaleFactor)
    /\ nHost' = nHost + 1
    /\ UNCHANGED <<enabled, workArea, scaleFactor, pending, nInv, last, prev, run>>

(* The monitor configuration changes: another work area and scale factor *)
HostSetEnv(m) ==
    /\ nHost < MaxHostEvents
    /\ maximized = 0
    /\ m # Monitor(workArea, scaleFactor)
    /\ workArea' = m.workArea
    /\ scaleFactor' = m.scaleFactor
    /\ nHost' = nHost + 1
    /\ UNCHANGED <<enabled, win, maximized, restoreRect, listeners, pending, text, label, nInv,
                   notifyCount, fired, last, prev, lastNotified, lastMessage, run>>

(* The extension with a host that only completes the requests it is given *)
Next ==
    \/ Enable
    \/ CycleWindowSizes(FALSE)
    \/ CycleWindowSizes(TRUE)
    \/ CenterWindow
    \/ HideMessage
    \/ HostApply

Spec == Init /\ [][Next]_vars

(* The extension with a host whose user and monitor configuration act on their own:
   one window, starting unmaximized on the 2000x1200 work area at scale 1 *)
InitHost ==
    /\ Init
    /\ workArea = Rect(0, 0, 2000, 1200)
    /\ scaleFactor = 1
    /\ maximized = 0

NextHost ==
    \/ Enable
    \/ nInv < MaxHostInvocations /\ CycleWindowSizes(FALSE)
    \/ nInv < MaxHostInvocations /\ CycleWindowSizes(TRUE)
    \/ nInv < MaxHostInvocations /\ CenterWindow
    \/ HideMessage
    \/ HostApply
    \/ HostApplyConstrained
    \/ \E r \in FrameRects : HostResize(r)
    \/ \E flags \in MaximizedStates : HostMaximize(flags)
    \/ \E m \in Monitors : HostSetEnv(m)

SpecHost == InitHost /\ [][NextHost]_vars

(* The same, with the extension disabled and enabled again at any time *)
NextLife ==
    \/ NextHost
    \/ Disable

SpecLife == InitHost /\ [][NextLife]_vars

----------------------------------------------------------------------------
(* Properties *)

IsCycle(inv) == inv.kind = "cycle"

IsCenter(inv) == inv.kind = "center"

(* the invocation selected a size and issued a move-resize request *)
Selected(inv) == IsCycle(inv) /\ inv.requested

NewSize(inv) == <<inv.request.width, inv.request.height>>

(* newX, newY of a cycle invocation (integers) *)
NewX(inv) == inv.request.x2 \div 2

NewY(inv) == inv.request.y2 \div 2

(* inv was invoked on exactly the geometry the invocation before it requested, with
   the same work area and scale factor *)
FollowsExactly(inv, before) ==
    /\ inv.requested /\ before.requested
    /\ inv.id = before.id + 1
    /\ inv.outerRect = FrameOf(before.request)
    /\ inv.workArea = before.workArea
    /\ inv.scaleFactor = before.scaleFactor

(* C1: when no scaled size fits the work area, a cycle invocation does not unmaximize
   the window, issues no move-resize request, and its listener never notifies. *)
C1_EmptyListAbortsUntouched ==
    (IsCycle(last) /\ last.scaledSizes = <<>>) =>
        /\ ~last.unmaximized
        /\ ~last.requested
        /\ last.id \notin listeners
        /\ notifyCount[last.id] = 0

(* C2: a resize-completion listener registered by one invocation never fires for a
   size change that this invocation did not request. *)
C2_NoStaleFire == \A f \in fired : f.cause = f.owner

(* C3 as stated: the position computed by cycle is never left of or above the work-area
   origin, and is not increased on an axis where the selected size already fits. *)
C3_NeverBeforeOrigin ==
    Selected(last) =>
        /\ NewX(last) >= last.workArea.x
        /\ NewY(last) >= last.workArea.y
        /\ (last.outerRect.x + last.request.width
                <= last.workArea.x + last.workArea.width) => NewX(last) <= last.outerRect.x
        /\ (last.outerRect.y + last.request.height
                <= last.workArea.y + last.workArea.height) => NewY(last) <= last.outerRect.y

(* C3 amended: on each axis the computed coordinate is at least the work-area origin
   whenever the window's current coordinate is, or whenever the selected size does not
   fit at the current position (the clamp is applied); where the selected size already
   fits at the current position the coordinate is not increased. *)
C3_ClampKeepsOrigin ==
    Selected(last) =>
        LET wa == last.workArea
            o == last.outerRect
            fitsX == o.x + last.request.width <= wa.x + wa.width
            fitsY == o.y + last.request.height <= wa.y + wa.height
        IN  /\ (o.x >= wa.x \/ ~fitsX) => NewX(last) >= wa.x
            /\ (o.y >= wa.y \/ ~fitsY) => NewY(last) >= wa.y
            /\ fitsX => NewX(last) <= o.x
            /\ fitsY => NewY(last) <= o.y

(* a cycle selected a size that fits at the current position on one axis and is
   clamped on the other, and one that starts left of the work area *)
C3_Witness ==
    /\ Selected(last)
    /\ last.outerRect.x + last.request.width > last.workArea.x + last.workArea.width
    /\ last.outerRect.y + last.request.height <= last.workArea.y + last.workArea.height
    /\ last.outerRect.x >= last.workArea.x
    /\ NewX(last) < last.outerRect.x

(* C4: nearestIndex is the smallest index of minimal Manhattan error: no candidate has
   a smaller error and every earlier candidate has a strictly larger one. *)
C4_NearestIsFirstMinimum ==
    (IsCycle(last) /\ last.scaledSizes # <<>>) =>
        LET ss == last.scaledSizes
            n == last.nearestIndex
        IN  /\ n \in 0..(Len(ss) - 1)
            /\ \A j \in 0..(Len(ss) - 1) :
                  /\ Error(ss[n + 1], last.outerRect) <= Error(ss[j + 1], last.outerRect)
                  /\ j < n => Error(ss[j + 1], last.outerRect) > Error(ss[n + 1], last.outerRect)

(* a cycle ran on a size with the same minimal error to two candidates *)
C4_Witness ==
    /\ IsCycle(last)
    /\ \E j \in 0..(Len(last.scaledSizes) - 1) :
          /\ j > last.nearestIndex
          /\ Error(last.scaledSizes[j + 1], last.outerRect)
                = Error(last.scaledSizes[last.nearestIndex + 1], last.outerRect)

(* C5: the selected size is CandidateList[(nearestIndex +/- 1) mod n] with the
   non-negative modulo; a 1280x720 window, forward, full list, yields 1280x900. *)
C5_CyclicAdvanceWraps ==
    Selected(last) =>
        LET ss == last.scaledSizes
            step == IF last.backwards THEN -1 ELSE 1
        IN  /\ NewSize(last) = ss[((last.nearestIndex + step) % Len(ss)) + 1]
            /\ (/\ ~last.backwards
                /\ ss = SIZES
                /\ last.outerRect.width = 1280
                /\ last.outerRect.height = 720) => NewSize(last) = <<1280, 900>>

(* a backward cycle from index 0 of a list of several candidates *)
C5_Witness ==
    /\ Selected(last)
    /\ last.backwards
    /\ last.nearestIndex = 0
    /\ Len(last.scaledSizes) >= 3
    /\ NewSize(last) = last.scaledSizes[Len(last.scaledSizes)]

(* C6: a cycle followed by a cycle in the opposite direction, invoked on exactly the
   geometry the first produced with the same work area and scale factor, selects the
   candidate that was the nearest match at the start. *)
C6_OppositeCycleReturns ==
    (/\ Selected(last) /\ Selected(prev)
     /\ last.backwards # prev.backwards
     /\ FollowsExactly(last, prev)) =>
        NewSize(last) = prev.scaledSizes[prev.nearestIndex + 1]

(* a forward cycle was undone by a backward cycle on a list of several candidates,
   starting from a size that is none of the candidates *)
C6_Witness ==
    /\ Selected(last) /\ Selected(prev)
    /\ last.backwards /\ ~prev.backwards
    /\ FollowsExactly(last, prev)
    /\ Len(prev.scaledSizes) >= 3
    /\ Error(prev.scaledSizes[prev.nearestIndex + 1], prev.outerRect) > 0

(* the sizes of SIZES, scaled by sf, that fit wa, as the set of their indices *)
FittingIndices(wa, sf) ==
    {i \in 1..Len(SIZES) : SIZES[i][1] * sf <= wa.width /\ SIZES[i][2] * sf <= wa.height}

(* C7: the CandidateList of a cycle invocation is the subsequence, in SIZES order, of
   the sizes times the scale factor that fit the work area, both as read by that
   invocation; scale factor 2 with a 1000x800 work area yields the empty list. *)
C7_CandidateListIsFilteredScaledSizes ==
    IsCycle(last) =>
        LET ss == last.scaledSizes
            idx == FittingIndices(last.workArea, last.scaleFactor)
        IN  /\ Len(ss) = Cardinality(idx)
            /\ \A i \in idx :
                  LET k == Cardinality({j \in idx : j <= i})
                  IN  ss[k] = <<SIZES[i][1] * last.scaleFactor, SIZES[i][2] * last.scaleFactor>>
            /\ (/\ last.scaleFactor = 2
                /\ last.workArea.width = 1000
                /\ last.workArea.height = 800) => ss = <<>>

(* two cycle invocations, the monitor configuration changed between them, built
   different lists, the second a proper non-empty part of SIZES scaled *)
C7_Witness ==
    /\ IsCycle(last) /\ IsCycle(prev)
    /\ Monitor(last.workArea, last.scaleFactor) # Monitor(prev.workArea, prev.scaleFactor)
    /\ last.scaledSizes # prev.scaledSizes
    /\ Len(last.scaledSizes) \in 1..(Len(SIZES) - 1)

(* C8: the frame a cycle requests has a size of the CandidateList and its right and
   bottom edges do not exceed the work area. *)
C8_RequestedFrameInsideWorkArea ==
    Selected(last) =>
        /\ \E k \in 1..Len(last.scaledSizes) : NewSize(last) = last.scaledSizes[k]
        /\ NewX(last) + last.request.width <= last.workArea.x + last.workArea.width
        /\ NewY(last) + last.request.height <= last.workArea.y + last.workArea.height

(* a cycle selected a size that would have crossed the right and the bottom edge at
   the window's position *)
C8_Witness ==
    /\ Selected(last)
    /\ last.outerRect.x + last.request.width > last.workArea.x + last.workArea.width
    /\ last.outerRect.y + last.request.height > last.workArea.y + last.workArea.height

(* the same action as the invocation before it *)
SameAction(inv, before) == inv.kind = before.kind /\ inv.backwards = before.backwards

(* C9 as stated: invoking the same action a second time, on the frame the first
   requested, requests that same frame again. *)
C9_EveryActionIdempotent ==
    (SameAction(last, prev) /\ FollowsExactly(last, prev)) =>
        FrameOf(last.request) = FrameOf(prev.request)

(* C9 amended: center is idempotent; a cycle action is idempotent exactly when the
   CandidateList has a single candidate, and with two or more candidates the second
   invocation selects a different size. *)
C9_CenterIdempotentCycleAdvances ==
    (SameAction(last, prev) /\ FollowsExactly(last, prev)) =>
        /\ IsCenter(last) => FrameOf(last.request) = FrameOf(prev.request)
        /\ (IsCycle(last) /\ Len(last.scaledSizes) = 1) =>
              FrameOf(last.request) = FrameOf(prev.request)
        /\ (IsCycle(last) /\ Len(last.scaledSizes) >= 2) => NewSize(last) # NewSize(prev)

(* center was invoked twice in a row on a window it had to move *)
C9_Witness ==
    /\ IsCenter(last) /\ IsCenter(prev)
    /\ FollowsExactly(last, prev)
    /\ FrameOf(prev.request) # prev.outerRect

(* C10: center requests the window's current size at
   newX = workArea.x + (workArea.width - outerRect.width) / 2 (newY alike), so the
   window's centre is the work area's centre, within one pixel once the host has
   taken the integer part; no clamping: a window larger than the work area gets a
   position left of / above the work-area origin. *)
C10_CenterIsExactAndUnclamped ==
    IsCenter(last) =>
        LET wa == last.workArea
            o == last.outerRect
            r == last.request
            f == FrameOf(r)
        IN  /\ last.requested
            /\ r.width = o.width /\ r.height = o.height
            /\ r.x2 + o.width = 2 * wa.x + wa.width
            /\ r.y2 + o.height = 2 * wa.y + wa.height
            /\ Abs(2 * f.x + o.width - (2 * wa.x + wa.width)) <= 1
            /\ Abs(2 * f.y + o.height - (2 * wa.y + wa.height)) <= 1
            /\ o.width > wa.width => r.x2 < 2 * wa.x
            /\ o.height > wa.height => r.y2 < 2 * wa.y

(* center ran on a window wider and higher than the work area, at a half-pixel
   position *)
C10_Witness ==
    /\ IsCenter(last)
    /\ last.outerRect.width > last.workArea.width
    /\ last.outerRect.height > last.workArea.height
    /\ last.request.x2 % 2 = 1
    /\ FrameOf(last.request).x < last.workArea.x

(* C11: the ratio suffix is part of the notification message exactly when
   |9 * w / h - 16| > 0.01 for the frame w x h the notification read, that is when
   9 * w / h is above 16.01 or below 15.99: no suffix for 1600x900, a suffix for
   1600x894. *)
C11_RatioSuffixIffOffSixteenNine ==
    text.present =>
        LET w == lastNotified.width
            h == lastNotified.height
        IN  /\ text.suffix <=> (900 * w > 1601 * h \/ 900 * w < 1599 * h)
            /\ (w = 1600 /\ h = 900) => ~text.suffix
            /\ (w = 1600 /\ h = 894) => text.suffix

(* the host constrained a requested 1600x900 to 1600x894 and the notification carries
   the ratio 16.11:9 *)
C11_Witness ==
    /\ text.present
    /\ lastNotified.width = 1600 /\ lastNotified.height = 894
    /\ text.suffix
    /\ text.numerator100 = 1611

(* a notification for an exact 1600x900 frame, without suffix *)
C11_WitnessExact ==
    /\ text.present
    /\ lastNotified.width = 1600 /\ lastNotified.height = 900
    /\ ~text.suffix

(* C12: at most one notification label is live at any time, the live label shows the
   most recently requested message, a label is created only when none is present, and
   fade completion destroys the label and leaves the resource absent. *)
C12_LabelInvariant ==
    /\ label.live \in {0, 1}
    /\ text.present <=> label.live = 1
    /\ label.fading <=> text.present
    /\ text.present => text = lastMessage

C12_LabelSteps ==
    /\ label'.live > label.live => (label.live = 0 /\ ~text.present)
    /\ (label.fading /\ ~label'.fading) => (label'.live = 0 /\ text' = NoText)

C12_SingleLabelLastMessageWins == []C12_LabelInvariant /\ [][C12_LabelSteps]_vars

(* two invocations have each been notified, by different size changes with different
   messages, and the label is live showing the later one *)
C12_Witness ==
    /\ fired = {[owner |-> 1, cause |-> 1], [owner |-> 2, cause |-> 2]}
    /\ text.present
    /\ label = [live |-> 1, fading |-> TRUE]
    /\ text = lastMessage
    /\ <<text.width, text.height>> # <<prev.request.width, prev.request.height>>
    /\ <<text.width, text.height>> = <<last.request.width, last.request.height>>

(* C13: an invocation's notification is produced only by a size-changed emission that
   comes after the handler issued its move-resize request (never in the handler
   itself), its listener is detached when it fires, and each invocation causes at
   most one notification. *)
C13_AtMostOnce ==
    \A i \in Ids :
        /\ notifyCount[i] <= 1
        /\ i \in listeners => (i <= nInv /\ notifyCount[i] = 0)
        /\ notifyCount[i] = 1 => (i <= nInv /\ \E f \in fired : f.owner = i)

C13_NotifyStep ==
    \A i \in Ids :
        notifyCount'[i] > notifyCount[i] =>
            /\ i \in listeners
            /\ i \notin listeners'
            /\ ~SameSize(win', win)
            /\ text'.present
            /\ lastNotified' = win'

C13_DeferredOneShotNotification == []C13_AtMostOnce /\ [][C13_NotifyStep]_vars

(* invocation 1 was notified once, and the window's size changed again afterwards
   without another notification *)
C13_Witness ==
    /\ notifyCount[1] = 1
    /\ listeners = {}
    /\ pending = <<>>
    /\ ~SameSize(win, lastNotified)

(* positions of a host call in the calls of an invocation *)
CallPositions(inv, call) == {k \in 1..Len(inv.calls) : inv.calls[k] = call}

(* C14: a cycle or center invocation on a window in any maximized state issues the
   unmaximize command first, before the frame rect is read and before the
   move-resize request; on a window that is not maximized it issues none. *)
C14_UnmaximizeFirst ==
    (IsCycle(last) \/ IsCenter(last)) =>
        IF last.maximized # 0
        THEN /\ CallPositions(last, "unmaximize") = {1}
             /\ \A k \in CallPositions(last, "get_frame_rect") : k > 1
             /\ \A k \in CallPositions(last, "move_resize_frame") : k > 1
             /\ CallPositions(last, "get_frame_rect") # {}
             /\ last.requested => CallPositions(last, "move_resize_frame") # {}
        ELSE CallPositions(last, "unmaximize") = {}

(* a handler ran on a window maximized on one axis only, unmaximized it, read the
   restored frame and issued its request *)
C14_Witness ==
    /\ last.maximized \in {1, 2}
    /\ last.unmaximized
    /\ last.requested
    /\ last.outerRect # last.frameBefore
    /\ maximized = 0

Elements(seq) == {seq[k] : k \in 1..Len(seq)}

(* C15: n consecutive cycle invocations in one direction over a CandidateList of n
   sizes, each on the frame the one before requested, starting from a window whose
   size is a candidate: the sizes selected are pairwise different candidates, the
   starting size is not selected before the n-th invocation, and after n invocations
   every candidate has been selected once and the n-th is the starting size. *)
C15_FullCycleVisitsEachOnce ==
    LET n == Len(run.scaledSizes)
        k == Len(run.sizes)
    IN  (k >= 1 /\ k <= n /\ run.start \in Elements(run.scaledSizes)) =>
            /\ Elements(run.sizes) \subseteq Elements(run.scaledSizes)
            /\ Cardinality(Elements(run.sizes)) = k
            /\ k < n => run.start \notin Elements(run.sizes)
            /\ k = n => (/\ Elements(run.sizes) = Elements(run.scaledSizes)
                         /\ run.sizes[n] = run.start)

(* a run of n >= 3 backward cycles over n candidates is complete, and the host has
   applied the last request: the window is back at its starting size *)
C15_Witness ==
    /\ Len(run.scaledSizes) >= 3
    /\ Len(run.sizes) = Len(run.scaledSizes)
    /\ run.backwards
    /\ run.start \in Elements(run.scaledSizes)
    /\ pending = <<>>
    /\ <<win.width, win.height>> = run.start

(* C16: while the extension is disabled nothing of it is live: no resize-completion
   listener of an earlier invocation is attached to the window and no notification
   label exists, and no notification is produced. *)
C16_NothingLiveWhileDisabled ==
    ~enabled => (listeners = {} /\ label.live = 0 /\ ~text.present)

(* a notification is produced while the extension is disabled *)
C16_NotifiedWhileDisabled ==
    /\ ~enabled /\ ~enabled'
    /\ \E i \in Ids : notifyCount'[i] > notifyCount[i]

C16_NoNotificationWhileDisabled == [][~C16_NotifiedWhileDisabled]_vars

====
